---- MODULE Spec2Model ----
(***************************************************************************)
(* A model of the three lab programs of the repository:                    *)
(*   task1.py  the finance adapters (TaxCSVAdapter, AccountingXMLAdapter,  *)
(*             CreditJSONAdapter), ForecastingAndModelingModule.process    *)
(*             and FinanceApp.run;                                         *)
(*   task3.py  the Department / EmployeeLeaf composite.                    *)
(*                                                                         *)
(* A Python str is modelled as a sequence of atoms.  An atom is a TLA+     *)
(* string standing for one character (",", "\n", " ", "a", "1") or for a   *)
(* run of characters that the code only ever handles as a whole: a field   *)
(* name ("tax_owed") or one of the four markers ("<revenue>", ...).  No    *)
(* marker is a substring of another one or overlaps itself, so a search    *)
(* for a marker in the text is a search for its atom.                      *)
(***************************************************************************)
EXTENDS Integers, Sequences, FiniteSets, TLC

VARIABLES
    raw_csv,      \* what TaxCalculatorCSV.get_tax_data_csv returns
    tax_out,      \* outcome of TaxCSVAdapter.get_data
    raw_xml,      \* what AccountingXMLModule.get_accounting_xml returns
    xml_out,      \* outcome of AccountingXMLAdapter.get_data
    credit_json,  \* what CreditAuthorizationJSONService.get_credit_json returns
    pc,           \* FinanceApp.run: index of the adapter the loop is at, or how run ended
    processed,    \* FinanceApp.run: the records handed to process, in order
    printed,      \* FinanceApp.run: what process reported for each record
    heap,         \* the objects built so far (address = index)
    results,      \* the get_data calls made so far: adapter, input, returned object
    children,     \* Department.__children, per department
    last,         \* the last operation called on a Department, with its result
    before        \* Department.__children as it was when that operation was called

vars == <<raw_csv, tax_out, raw_xml, xml_out, credit_json, pc, processed, printed,
          heap, results, children, last, before>>

taxVars == <<raw_csv, tax_out>>
xmlVars == <<raw_xml, xml_out>>
appVars == <<credit_json, pc, processed, printed>>
heapVars == <<heap, results>>
orgVars == <<children, last, before>>

(***************************************************************************)
(* Bounds of the model.                                                    *)
(***************************************************************************)
MaxCsvLen == 6
MaxXmlLen == 6
MaxAppXmlLen == 3
MaxCalls == 3
MaxTotalChildren == 3

(***************************************************************************)
(* Python built-ins on str, as the adapters use them.                      *)
(***************************************************************************)
Texts(alphabet, n) == UNION {[1..k -> alphabet] : k \in 0..n}

\* str.isspace for one character: what str.strip() removes.
IsSpace(c) == c \in {" ", "\t", "\n", "\r", "\f"}

RECURSIVE lstrip(_)
lstrip(s) ==
    IF s # <<>> /\ IsSpace(Head(s)) THEN lstrip(Tail(s)) ELSE s

RECURSIVE rstrip(_)
rstrip(s) ==
    IF s # <<>> /\ IsSpace(s[Len(s)]) THEN rstrip(SubSeq(s, 1, Len(s) - 1)) ELSE s

\* str.strip()
strip(s) == rstrip(lstrip(s))

\* sep in s, for a separator of one atom
contains(s, sep) == \E i \in 1..Len(s) : s[i] = sep

\* s.find(sep) + 1, to be used when sep occurs in s
find(s, sep) == CHOOSE i \in 1..Len(s) : s[i] = sep /\ \A j \in 1..(i - 1) : s[j] # sep

\* s.split(sep): never empty; "".split(sep) is [""]
RECURSIVE split(_, _)
split(s, sep) ==
    IF ~contains(s, sep)
    THEN <<s>>
    ELSE <<SubSeq(s, 1, find(s, sep) - 1)>>
            \o split(SubSeq(s, find(s, sep) + 1, Len(s)), sep)

\* [x for x in xs if x]
RECURSIVE non_empty(_)
non_empty(xs) ==
    IF xs = <<>> THEN <<>>
    ELSE IF Head(xs) # <<>> THEN <<Head(xs)>> \o non_empty(Tail(xs))
    ELSE non_empty(Tail(xs))

\* Mutant of dict_set: a key already present keeps its first value.
dict_set_keep_first(d, k, v) ==
    [x \in DOMAIN d \cup {k} |-> IF x \in DOMAIN d THEN d[x] ELSE v]

\* d[k] = v on a dict, as a function from keys to values
dict_set(d, k, v) == [x \in DOMAIN d \cup {k} |-> IF x = k THEN v ELSE d[x]]

\* zip(xs, ys): the shorter sequence wins
zip_len(xs, ys) == IF Len(xs) <= Len(ys) THEN Len(xs) ELSE Len(ys)

\* dict(zip(keys, values)): the pairs are inserted from left to right
RECURSIVE dict_of_pairs(_, _, _)
dict_of_pairs(keys, values, n) ==
    IF n = 0 THEN <<>>
    ELSE dict_set(dict_of_pairs(keys, values, n - 1), keys[n], values[n])

\* Mutant of dict_zip: a row whose shape differs from the header's is left empty.
dict_zip_strict(keys, values) ==
    IF Len(keys) # Len(values) THEN <<>>
    ELSE dict_of_pairs(keys, values, zip_len(keys, values))

dict_zip(keys, values) == dict_of_pairs(keys, values, zip_len(keys, values))

(***************************************************************************)
(* The outcome of a call: a returned value or a raised exception.          *)
(***************************************************************************)
NoValue == [source |-> "<none>"]
NotCalled == [exc |-> "NotCalled", ret |-> NoValue]
Returned(v) == [exc |-> "None", ret |-> v]
Raised(e) == [exc |-> e, ret |-> NoValue]

(***************************************************************************)
(* Values of the variables a specification does not use.                   *)
(***************************************************************************)
IdleTax == raw_csv = <<>> /\ tax_out = NotCalled
IdleXml == raw_xml = <<>> /\ xml_out = NotCalled
IdleApp == credit_json = <<>> /\ pc = [at |-> 0, exc |-> "None"] /\ processed = <<>> /\ printed = <<>>
IdleHeap == heap = <<>> /\ results = <<>>
IdleOrg == children = <<>> /\ last = <<>> /\ before = <<>>

(***************************************************************************)
(* TaxCSVAdapter.get_data                                                  *)
(***************************************************************************)
csv_lines(raw) == non_empty(split(strip(raw), "\n"))

\* Mutant of csv_rows: rows is not emptied between calls, the rows of the
\* adapter's previous call stay in it.
csv_rows_kept(lines) ==
    LET earlier == {i \in 1..Len(results) :
                       results[i].adapter = "tax" /\ results[i].exc = "None"}
        rows == [j \in 1..(Len(lines) - 1) |->
                    dict_zip(split(lines[1], ","), split(lines[j + 1], ","))]
    IN  IF earlier = {} THEN rows
        ELSE results[CHOOSE i \in earlier : \A k \in earlier : k <= i].value.tax_records
                \o rows

csv_rows(lines) ==
    [j \in 1..(Len(lines) - 1) |->
        dict_zip(split(lines[1], ","), split(lines[j + 1], ","))]

TaxCSVAdapter_get_data(raw) ==
    IF csv_lines(raw) = <<>>
    THEN Raised("IndexError")          \* lines[0] of an empty list
    ELSE Returned([source |-> "TaxCalculatorCSV",
                   tax_records |-> csv_rows(csv_lines(raw))])

CsvAlphabet == {"a", "b", ",", "\n", " "}

TaxGetData ==
    /\ tax_out = NotCalled
    /\ tax_out' = TaxCSVAdapter_get_data(raw_csv)
    /\ UNCHANGED <<raw_csv, xmlVars, appVars, heapVars, orgVars>>

InitTax ==
    /\ raw_csv \in Texts(CsvAlphabet, MaxCsvLen)
    /\ tax_out = NotCalled
    /\ IdleXml /\ IdleApp /\ IdleHeap /\ IdleOrg

NextTax == TaxGetData

SpecTax == InitTax /\ [][NextTax]_vars

(***************************************************************************)
(* AccountingXMLAdapter.get_data                                           *)
(***************************************************************************)
Digits == <<"0", "1", "2", "3", "4", "5", "6", "7", "8", "9">>
IsDigit(c) == \E i \in 1..10 : Digits[i] = c
DigitValue(c) == (CHOOSE i \in 1..10 : Digits[i] = c) - 1

RECURSIVE DecimalValue(_)
DecimalValue(t) ==
    IF t = <<>> THEN 0
    ELSE 10 * DecimalValue(SubSeq(t, 1, Len(t) - 1)) + DigitValue(t[Len(t)])

\* float(s) accepts s: surrounding whitespace is skipped and digits must remain.
\* (The texts of the model hold no sign, point, exponent or underscore.)
float_ok(s) == strip(s) # <<>> /\ \A i \in 1..Len(strip(s)) : IsDigit(strip(s)[i])

\* float(s) when it is accepted
float(s) == DecimalValue(strip(s))

\* Mutant of has_markers: only the start marker is looked for.
has_start_marker(raw, start, end) == contains(raw, start)

\* "<f>" in raw_xml and "</f>" in raw_xml
has_markers(raw, start, end) == contains(raw, start) /\ contains(raw, end)

\* Mutant of extract: the text between the first start marker and the first end
\* marker, wherever the two are.
extract_between_firsts(raw, start, end) ==
    IF find(raw, start) < find(raw, end)
    THEN SubSeq(raw, find(raw, start) + 1, find(raw, end) - 1)
    ELSE <<>>

\* raw_xml.split("<f>")[1].split("</f>")[0]
extract(raw, start, end) == split(split(raw, start)[2], end)[1]

\* revenue = "100000" / expenses = "60000"
revenue_default == <<"1", "0", "0", "0", "0", "0">>
expenses_default == <<"6", "0", "0", "0", "0">>

field_text(raw, start, end, default) ==
    IF has_markers(raw, start, end) THEN extract(raw, start, end) ELSE default

revenue_text(raw) == field_text(raw, "<revenue>", "</revenue>", revenue_default)
expenses_text(raw) == field_text(raw, "<expenses>", "</expenses>", expenses_default)

AccountingXMLAdapter_get_data(raw) ==
    IF ~float_ok(revenue_text(raw)) \/ ~float_ok(expenses_text(raw))
    THEN Raised("ValueError")
    ELSE Returned([source |-> "AccountingXMLModule",
                   revenue |-> float(revenue_text(raw)),
                   expenses |-> float(expenses_text(raw))])

XmlAlphabet == {"<revenue>", "</revenue>", "<expenses>", "</expenses>", "1", "x"}

XmlGetData ==
    /\ xml_out = NotCalled
    /\ xml_out' = AccountingXMLAdapter_get_data(raw_xml)
    /\ UNCHANGED <<raw_xml, taxVars, appVars, heapVars, orgVars>>

InitXml ==
    /\ raw_xml \in Texts(XmlAlphabet, MaxXmlLen)
    /\ xml_out = NotCalled
    /\ IdleTax /\ IdleApp /\ IdleHeap /\ IdleOrg

NextXml == XmlGetData

SpecXml == InitXml /\ [][NextXml]_vars

(***************************************************************************)
(* CreditJSONAdapter.get_data.  credit_data is what the adaptee returned:  *)
(* the mapping itself, or its address where objects are told apart.        *)
(***************************************************************************)
\* Mutant of CreditJSONAdapter_get_data: the record is tagged with the adapter's
\* own name.
CreditJSONAdapter_get_data_own_tag(credit_data) ==
    Returned([source |-> "CreditJSONAdapter", credit |-> credit_data])

CreditJSONAdapter_get_data(credit_data) ==
    Returned([source |-> "CreditAuthorizationJSONService", credit |-> credit_data])

\* The mapping of CreditAuthorizationJSONService.get_credit_json, and the
\* mappings that lack some of its keys.
FullCredit == [credit_score |-> 720, limit |-> 15000, status |-> "approved"]
CreditMappings == {[k \in K |-> FullCredit[k]] : K \in SUBSET (DOMAIN FullCredit)}

(***************************************************************************)
(* ForecastingAndModelingModule.process                                    *)
(***************************************************************************)
TaxOwed == <<"tax_owed">>

\* float(row["tax_owed"]) succeeds
tax_owed_ok(row) == TaxOwed \in DOMAIN row /\ float_ok(row[TaxOwed])

RECURSIVE sum_tax(_)
sum_tax(rows) ==
    IF rows = <<>> THEN 0 ELSE float(Head(rows)[TaxOwed]) + sum_tax(Tail(rows))

\* dict.get(key): None for an absent key
dict_get(d, key) == IF key \in DOMAIN d THEN d[key] ELSE "None"

\* The exception process raises on data, "None" if it returns: the rows are
\* summed in order, so the first bad row decides.
process_exc(data) ==
    IF "tax_records" \notin DOMAIN data
          \/ \A j \in 1..Len(data.tax_records) : tax_owed_ok(data.tax_records[j])
    THEN "None"
    ELSE LET j == CHOOSE j \in 1..Len(data.tax_records) :
                      /\ ~tax_owed_ok(data.tax_records[j])
                      /\ \A i \in 1..(j - 1) : tax_owed_ok(data.tax_records[i])
         IN  IF TaxOwed \notin DOMAIN data.tax_records[j]
             THEN "KeyError" ELSE "ValueError"

\* The lines process prints on data, up to the exception if it raises one.
process_lines(data) ==
    <<[line |-> "Processing data from", val |-> data.source]>>
    \o (IF "revenue" \in DOMAIN data /\ "expenses" \in DOMAIN data
        THEN <<[line |-> "Estimated profit", val |-> data.revenue - data.expenses]>>
        ELSE <<>>)
    \o (IF process_exc(data) # "None" THEN <<>>
        ELSE (IF "tax_records" \in DOMAIN data
              THEN <<[line |-> "Total tax owed", val |-> sum_tax(data.tax_records)]>>
              ELSE <<>>)
             \o (IF "credit" \in DOMAIN data
                 THEN <<[line |-> "Credit", val |-> <<dict_get(data.credit, "status"),
                                                      dict_get(data.credit, "limit")>>]>>
                 ELSE <<>>))

(***************************************************************************)
(* FinanceApp.run                                                          *)
(***************************************************************************)
\* for adapter in (tax_adapter, accounting_adapter, credit_adapter): get_data()
adapter_get_data(i) ==
    CASE i = 1 -> TaxCSVAdapter_get_data(raw_csv)
      [] i = 2 -> AccountingXMLAdapter_get_data(raw_xml)
      [] i = 3 -> CreditJSONAdapter_get_data(credit_json)

Separator == [line |-> "----------------------------------------", val |-> ""]

\* One pass of the loop body.  An exception of get_data or of process is caught
\* nowhere: it ends run.
RunLoopBody ==
    /\ pc.at \in 1..3
    /\ pc.exc = "None"
    /\ LET got == adapter_get_data(pc.at)
       IN  IF got.exc # "None"
           THEN /\ pc' = [pc EXCEPT !.exc = got.exc]
                /\ UNCHANGED <<processed, printed>>
           ELSE /\ processed' = Append(processed, got.ret)
                /\ IF process_exc(got.ret) # "None"
                   THEN /\ printed' = printed \o process_lines(got.ret)
                        /\ pc' = [pc EXCEPT !.exc = process_exc(got.ret)]
                   ELSE /\ printed' = printed \o process_lines(got.ret) \o <<Separator>>
                        /\ pc' = [pc EXCEPT !.at = @ + 1]
    /\ UNCHANGED <<credit_json, taxVars, xmlVars, heapVars, orgVars>>

\* "year,tax_owed\n2024,12000\n" of TaxCalculatorCSV
SampleCsv == <<"year", ",", "tax_owed", "\n",
               "2", "0", "2", "4", ",", "1", "2", "0", "0", "0", "\n">>

AppCsvTexts ==
    { SampleCsv,
      SampleCsv \o <<"2", "0", "2", "5", ",", "9", "0", "0", "0", "\n">>,
      <<"year", ",", "tax_owed", "\n">>,
      <<>>,
      <<"year", "\n", "2", "0", "2", "4">>,
      <<"year", ",", "tax_owed", "\n", "2", "0", "2", "4", ",", "x">> }

InitApp ==
    /\ raw_csv \in AppCsvTexts
    /\ tax_out = NotCalled
    /\ raw_xml \in Texts(XmlAlphabet, MaxAppXmlLen)
    /\ xml_out = NotCalled
    /\ credit_json \in CreditMappings
    /\ pc = [at |-> 1, exc |-> "None"]
    /\ processed = <<>>
    /\ printed = <<>>
    /\ IdleHeap /\ IdleOrg

NextApp == RunLoopBody

SpecApp == InitApp /\ [][NextApp]_vars

(***************************************************************************)
(* The objects the calls build.  heap[a] is the object at address a: a     *)
(* list or a dict with its items; refs are the keys (indices) whose item   *)
(* is the address of another object, every other item is an immutable      *)
(* value (str, int, float).                                                *)
(***************************************************************************)
list_object(addresses) ==
    [kind |-> "list", items |-> addresses, refs |-> DOMAIN addresses]
dict_object(items, refs) == [kind |-> "dict", items |-> items, refs |-> refs]

\* TaxCSVAdapter.get_data returning ret: rows = [] is a new list, every
\* dict(zip(...)) a new dict appended to it, the returned literal a new dict.
store_tax(h, ret) ==
    LET n == Len(ret.tax_records)
        rows == Len(h) + 1
    IN  h \o <<list_object([j \in 1..n |-> rows + j])>>
          \o [j \in 1..n |-> dict_object(ret.tax_records[j], {})]
          \o <<dict_object([ret EXCEPT !.tax_records = rows], {"tax_records"})>>

\* AccountingXMLAdapter.get_data returning ret: one new dict of a str and floats.
store_xml(h, ret) == Append(h, dict_object(ret, {}))

\* CreditAuthorizationJSONService.get_credit_json: the literal is a new dict
\* at every call.
get_credit_json(h, mapping) == Append(h, dict_object(mapping, {}))

\* CreditJSONAdapter.get_data returning ret: one new dict, whose credit item is
\* the adaptee's object itself.
store_credit(h, ret) == Append(h, dict_object(ret, {"credit"}))

\* The value of the object at address a of heap h, addresses followed.
RECURSIVE deep(_, _)
deep(h, a) ==
    [k \in DOMAIN h[a].items |->
        IF k \in h[a].refs THEN deep(h, h[a].items[k]) ELSE h[a].items[k]]

\* The addresses of the objects the object at address a is made of.
RECURSIVE reach(_, _)
reach(h, a) == {a} \cup UNION {reach(h, h[a].items[k]) : k \in h[a].refs}

\* A get_data call as the caller sees it: what the adaptee returned, the
\* exception raised or the address of the returned record, and the value that
\* record had when it was returned.
call_record(adapter, raw, exc, h) ==
    [adapter |-> adapter, raw |-> raw, exc |-> exc,
     addr |-> IF exc = "None" THEN Len(h) ELSE 0,
     value |-> IF exc = "None" THEN deep(h, Len(h)) ELSE NoValue]

HeapCsvTexts ==
    { SampleCsv,
      SampleCsv \o <<"2", "0", "2", "5", ",", "9", "0", "0", "0", "\n">>,
      <<"year", ",", "tax_owed", "\n">>,
      <<>> }

HeapXmlTexts ==
    { <<"<revenue>", "1", "</revenue>", "<expenses>", "1", "</expenses>">>,
      <<"<revenue>", "1", "</revenue>">>,
      <<"<revenue>", "x", "</revenue>">> }

CallTax ==
    /\ Len(results) < MaxCalls
    /\ \E raw \in HeapCsvTexts :
          LET got == TaxCSVAdapter_get_data(raw)
              h == IF got.exc = "None" THEN store_tax(heap, got.ret) ELSE heap
          IN  /\ heap' = h
              /\ results' = Append(results, call_record("tax", raw, got.exc, h))
    /\ UNCHANGED <<taxVars, xmlVars, appVars, orgVars>>

CallAccounting ==
    /\ Len(results) < MaxCalls
    /\ \E raw \in HeapXmlTexts :
          LET got == AccountingXMLAdapter_get_data(raw)
              h == IF got.exc = "None" THEN store_xml(heap, got.ret) ELSE heap
          IN  /\ heap' = h
              /\ results' = Append(results, call_record("accounting", raw, got.exc, h))
    /\ UNCHANGED <<taxVars, xmlVars, appVars, orgVars>>

CallCredit ==
    /\ Len(results) < MaxCalls
    /\ \E mapping \in CreditMappings :
          LET h1 == get_credit_json(heap, mapping)
              got == CreditJSONAdapter_get_data(Len(h1))
              h == store_credit(h1, got.ret)
          IN  /\ heap' = h
              /\ results' = Append(results, call_record("credit", mapping, got.exc, h))
    /\ UNCHANGED <<taxVars, xmlVars, appVars, orgVars>>

InitHeap ==
    /\ heap = <<>>
    /\ results = <<>>
    /\ IdleTax /\ IdleXml /\ IdleApp /\ IdleOrg

NextHeap == CallTax \/ CallAccounting \/ CallCredit

SpecHeap == InitHeap /\ [][NextHeap]_vars

(***************************************************************************)
(* task3.py: the composite.  A component is named by its object: `in` and  *)
(* list.remove compare with ==, which on these classes is identity.        *)
(***************************************************************************)
Departments == {"company", "it_dept", "hr_dept"}
Leaves == {"dev_1", "dev_2"}
Components == Departments \cup Leaves

\* EmployeeLeaf.__salary of dev_1 and dev_2 (floats with integer values)
Salary == [e \in Leaves |-> IF e = "dev_1" THEN 100000 ELSE 80000]

\* component in self.__children
is_child(ch, d, c) == \E i \in 1..Len(ch[d]) : ch[d][i] = c

\* Mutant of list_remove: every item equal to c goes.
list_remove_all(xs, c) == SelectSeq(xs, LAMBDA x : x # c)

\* list.remove(c): the first item equal to c goes
list_remove(xs, c) ==
    LET i == CHOOSE i \in 1..Len(xs) : xs[i] = c /\ \A j \in 1..(i - 1) : xs[j] # c
    IN  SubSeq(xs, 1, i - 1) \o SubSeq(xs, i + 1, Len(xs))

\* The components below the components of S, S included.
RECURSIVE below(_, _)
below(ch, S) ==
    LET T == S \cup {c \in Components :
                        \E d \in S \cap Departments : is_child(ch, d, c)}
    IN  IF T = S THEN S ELSE below(ch, T)

\* Department d is below itself.
on_cycle(ch, d) == \E i \in 1..Len(ch[d]) : d \in below(ch, {ch[d][i]})

\* The recursion of get_total_salary from c never ends: Python raises
\* RecursionError.
recursion_error(ch, c) == \E d \in below(ch, {c}) \cap Departments : on_cycle(ch, d)

\* get_total_salary of component c: EmployeeLeaf returns its salary, Department
\* adds up its children from the first to the last, from total = 0.0.
RECURSIVE get_total_salary(_, _)
RECURSIVE total_of_first(_, _, _)
get_total_salary(ch, c) ==
    IF c \in Leaves THEN Salary[c] ELSE total_of_first(ch, c, Len(ch[c]))

total_of_first(ch, d, n) ==
    IF n = 0 THEN 0
    ELSE total_of_first(ch, d, n - 1) + get_total_salary(ch, ch[d][n])

RECURSIVE count_children(_, _)
count_children(ch, S) ==
    IF S = {} THEN 0
    ELSE LET d == CHOOSE d \in S : TRUE
         IN  Len(ch[d]) + count_children(ch, S \ {d})

\* Department.add
Add(d, c) ==
    /\ count_children(children, Departments) < MaxTotalChildren
    /\ children' = [children EXCEPT ![d] = Append(@, c)]
    /\ last' = [op |-> "add", dept |-> d, comp |-> c, exc |-> "None", result |-> 0]
    /\ before' = children
    /\ UNCHANGED <<taxVars, xmlVars, appVars, heapVars>>

\* Department.remove
Remove(d, c) ==
    /\ children' = IF is_child(children, d, c)
                   THEN [children EXCEPT ![d] = list_remove(@, c)]
                   ELSE children
    /\ last' = [op |-> "remove", dept |-> d, comp |-> c, exc |-> "None", result |-> 0]
    /\ before' = children
    /\ UNCHANGED <<taxVars, xmlVars, appVars, heapVars>>

\* Department.get_total_salary
GetTotalSalary(d) ==
    /\ last' = IF recursion_error(children, d)
               THEN [op |-> "get_total_salary", dept |-> d, comp |-> d,
                     exc |-> "RecursionError", result |-> 0]
               ELSE [op |-> "get_total_salary", dept |-> d, comp |-> d,
                     exc |-> "None", result |-> get_total_salary(children, d)]
    /\ before' = children
    /\ UNCHANGED <<children, taxVars, xmlVars, appVars, heapVars>>

InitOrg ==
    /\ children = [d \in Departments |-> <<>>]
    /\ last = [op |-> "init", dept |-> "company", comp |-> "company",
               exc |-> "None", result |-> 0]
    /\ before = children
    /\ IdleTax /\ IdleXml /\ IdleApp /\ IdleHeap

NextOrg ==
    \/ \E d \in Departments : \E c \in Components : Add(d, c)
    \/ \E d \in Departments : \E c \in Components : Remove(d, c)
    \/ \E d \in Departments : GetTotalSalary(d)

SpecOrg == InitOrg /\ [][NextOrg]_vars

(***************************************************************************)
(* What the specification says of the delimited-text normaliser, stated    *)
(* on the raw text without the operators above.                            *)
(***************************************************************************)
\* The k-th smallest element of a finite set of integers.
Nth(S, k) == CHOOSE x \in S : Cardinality({y \in S : y < x}) = k - 1

\* The pieces of s between the occurrences of sep.
Cut(s, sep) ==
    LET B == {0, Len(s) + 1} \cup {i \in 1..Len(s) : s[i] = sep}
    IN  [k \in 1..(Cardinality(B) - 1) |-> SubSeq(s, Nth(B, k) + 1, Nth(B, k + 1) - 1)]

IsNonEmpty(s) == s # <<>>

\* The non-empty lines of a text, the header line first.
LinesOf(s) == SelectSeq(Cut(s, "\n"), IsNonEmpty)

\* The text from its first to its last character that is not whitespace.
Trimmed(s) ==
    LET ns == {i \in 1..Len(s) : ~IsSpace(s[i])}
    IN  IF ns = {} THEN <<>>
        ELSE SubSeq(s, Nth(ns, 1), Nth(ns, Cardinality(ns)))

Smaller(a, b) == IF a <= b THEN a ELSE b

\* rec pairs the first m names of h with the first m values of r, name by name.
PairsEach(rec, h, r, m) ==
    /\ DOMAIN rec = {h[i] : i \in 1..m}
    /\ \A i \in 1..m : rec[h[i]] = r[i]

\* The same, a name that occurs twice among the first m keeping its last value.
PairsLastWins(rec, h, r, m) ==
    /\ DOMAIN rec = {h[i] : i \in 1..m}
    /\ \A i \in 1..m : (\A i2 \in (i + 1)..m : h[i2] # h[i]) => rec[h[i]] = r[i]

TaxCalled == tax_out.exc # "NotCalled"
TaxReturned == tax_out.exc = "None"

\* Row j of the lines L has as many values as the header has names.
SameShape(L, j) == Len(Cut(L[j], ",")) = Len(Cut(L[1], ","))

\* The record built for line j of L (j >= 2) satisfies P(rec, header, row).
RowRecord(L, j, P(_, _, _)) ==
    /\ TaxReturned
    /\ j - 1 <= Len(tax_out.ret.tax_records)
    /\ P(tax_out.ret.tax_records[j - 1], Cut(L[1], ","), Cut(L[j], ","))

C1_PairsAll(rec, h, r) == PairsEach(rec, h, r, Len(h))
C1_PairsLast(rec, h, r) == PairsLastWins(rec, h, r, Len(h))

\* C1 as claimed: for every raw text whose first line is a header h of k names,
\* the record of every row of exactly k values maps h[i] to r[i] for every i and
\* holds nothing else, the values exactly as they appear in the raw text.
C1_AsClaimed ==
    TaxCalled =>
        \A j \in 2..Len(LinesOf(raw_csv)) :
            SameShape(LinesOf(raw_csv), j) => RowRecord(LinesOf(raw_csv), j, C1_PairsAll)

\* C1 amended: with h and r read from the text without its leading and trailing
\* whitespace, the record of every row of exactly k values has the header's names
\* as its keys and maps h[i] to r[i] for every i whose name does not occur again
\* later in the header (for every i when the names are distinct).
C1_RowPairsHeaderLastWins ==
    TaxCalled =>
        \A j \in 2..Len(LinesOf(Trimmed(raw_csv))) :
            SameShape(LinesOf(Trimmed(raw_csv)), j)
                => RowRecord(LinesOf(Trimmed(raw_csv)), j, C1_PairsLast)

\* A row of two values under a header of two distinct names has been normalised.
C1_Witness ==
    /\ TaxReturned
    /\ Len(LinesOf(raw_csv)) >= 2
    /\ Len(Cut(LinesOf(raw_csv)[1], ",")) = 2
    /\ Len(Cut(LinesOf(raw_csv)[2], ",")) = 2
    /\ Len(tax_out.ret.tax_records) >= 1
    /\ Cardinality(DOMAIN tax_out.ret.tax_records[1]) = 2

C2_InOrder(rec, h, r) == PairsLastWins(rec, h, r, Smaller(Len(h), Len(r)))

\* C2 as claimed: for every raw text the call yields tax_records with one entry
\* per non-empty line after the header line of the raw text, in the order of
\* those lines.
C2_AsClaimed ==
    TaxCalled =>
        /\ TaxReturned
        /\ Len(tax_out.ret.tax_records) =
              (IF LinesOf(raw_csv) = <<>> THEN 0 ELSE Len(LinesOf(raw_csv)) - 1)
        /\ \A j \in 2..Len(LinesOf(raw_csv)) : RowRecord(LinesOf(raw_csv), j, C2_InOrder)

\* C3 as claimed: a raw text with no data rows (empty, or a header line only)
\* yields a record with an empty tax_records and raises nothing.
C3_AsClaimed ==
    (TaxCalled /\ Len(LinesOf(raw_csv)) <= 1) =>
        (TaxReturned /\ tax_out.ret.tax_records = <<>>)

C7_ExactlyMin(rec, h, r) ==
    /\ Cardinality(DOMAIN rec) = Smaller(Len(h), Len(r))
    /\ PairsEach(rec, h, r, Smaller(Len(h), Len(r)))

C7_MinLast(rec, h, r) ==
    /\ Cardinality(DOMAIN rec) <= Smaller(Len(h), Len(r))
    /\ PairsLastWins(rec, h, r, Smaller(Len(h), Len(r)))

\* C7 as claimed: a row of n values under a header of k names, n # k, yields a
\* record of exactly min(n, k) entries that pairs the first min(n, k) names with
\* the first min(n, k) values, and the call does not raise.
C7_AsClaimed ==
    TaxCalled =>
        \A j \in 2..Len(LinesOf(Trimmed(raw_csv))) :
            ~SameShape(LinesOf(Trimmed(raw_csv)), j)
                => RowRecord(LinesOf(Trimmed(raw_csv)), j, C7_ExactlyMin)

\* C7 amended: such a row yields a record whose keys are the first min(n, k)
\* names, so at most min(n, k) entries, each name mapped to the value at the last
\* of the first min(n, k) positions where it occurs; the call does not raise.
C7_MismatchTruncatesLastWins ==
    TaxCalled =>
        \A j \in 2..Len(LinesOf(Trimmed(raw_csv))) :
            ~SameShape(LinesOf(Trimmed(raw_csv)), j)
                => RowRecord(LinesOf(Trimmed(raw_csv)), j, C7_MinLast)

\* A row of three values under a header of two distinct names has been
\* normalised to a record of two entries.
C7_Witness ==
    /\ TaxReturned
    /\ Len(LinesOf(Trimmed(raw_csv))) = 2
    /\ Len(Cut(LinesOf(Trimmed(raw_csv))[1], ",")) = 2
    /\ Len(Cut(LinesOf(Trimmed(raw_csv))[2], ",")) = 3
    /\ Len(tax_out.ret.tax_records) = 1
    /\ Cardinality(DOMAIN tax_out.ret.tax_records[1]) = 2

(***************************************************************************)
(* What the specification says of the markup-text normaliser.              *)
(***************************************************************************)
Fields == {"revenue", "expenses"}
Other(f) == IF f = "revenue" THEN "expenses" ELSE "revenue"
StartMarker(f) == IF f = "revenue" THEN "<revenue>" ELSE "<expenses>"
EndMarker(f) == IF f = "revenue" THEN "</revenue>" ELSE "</expenses>"
DefaultRevenue == 100000
DefaultExpenses == 60000
DefaultOf(f) == IF f = "revenue" THEN DefaultRevenue ELSE DefaultExpenses

Occurrences(s, atom) == {i \in 1..Len(s) : s[i] = atom}
Least(S) == CHOOSE x \in S : \A y \in S : x <= y
BothMarkers(s, f) == Occurrences(s, StartMarker(f)) # {} /\ Occurrences(s, EndMarker(f)) # {}

\* The text strictly between the first start marker and the first end marker of f
\* (nothing when the first end marker comes first).
BetweenFirsts(s, f) ==
    LET i == Least(Occurrences(s, StartMarker(f)))
        j == Least(Occurrences(s, EndMarker(f)))
    IN  IF i < j THEN SubSeq(s, i + 1, j - 1) ELSE <<>>

\* The text strictly between the first start marker of f and the next marker of f
\* after it, start or end, whichever comes first; to the end of the text if none.
UpToNextMarker(s, f) ==
    LET i == Least(Occurrences(s, StartMarker(f)))
        stops == {j \in (i + 1)..Len(s) : s[j] \in {StartMarker(f), EndMarker(f)}}
                    \cup {Len(s) + 1}
    IN  SubSeq(s, i + 1, Least(stops) - 1)

IsNumber(t) == t # <<>> /\ \A i \in 1..Len(t) : t[i] \in {"0", "1"}
RECURSIVE NumberOf(_)
NumberOf(t) ==
    IF t = <<>> THEN 0
    ELSE (IF Head(t) = "1" THEN 10 ^ (Len(t) - 1) ELSE 0) + NumberOf(Tail(t))

XmlCalled == xml_out.exc # "NotCalled"
XmlReturned == xml_out.exc = "None"

\* The call has parsed the text T(f) for field f, a field with both markers: if
\* the call returned, the text is a number and the value of f; if the text is no
\* number the call raised; and the call did return if the text is a number and
\* the other field, read the same way, is not in the way.
ParsedAs(f, T(_, _)) ==
    /\ XmlReturned => (IsNumber(T(raw_xml, f)) /\ xml_out.ret[f] = NumberOf(T(raw_xml, f)))
    /\ ~IsNumber(T(raw_xml, f)) => xml_out.exc = "ValueError"
    /\ (/\ IsNumber(T(raw_xml, f))
        /\ BothMarkers(raw_xml, Other(f)) => IsNumber(T(raw_xml, Other(f))))
          => XmlReturned

\* C4 as claimed: whenever both markers of a field occur in the raw text, in any
\* arrangement, the text parsed as a float is the one strictly between the first
\* start marker and the first end marker.
C4_AsClaimed ==
    XmlCalled =>
        \A f \in Fields : BothMarkers(raw_xml, f) => ParsedAs(f, BetweenFirsts)

\* C4 amended: whenever both markers of a field occur in the raw text, the text
\* parsed as a float is the one strictly between the first start marker and the
\* next start or end marker of the field after it (the end of the text when none
\* follows).
C4_ParsesUpToNextMarker ==
    XmlCalled =>
        \A f \in Fields : BothMarkers(raw_xml, f) => ParsedAs(f, UpToNextMarker)

\* Both fields were parsed from a text with both marker pairs.
C4_Witness ==
    /\ XmlReturned
    /\ BothMarkers(raw_xml, "revenue") /\ BothMarkers(raw_xml, "expenses")
    /\ xml_out.ret.revenue = 1
    /\ xml_out.ret.expenses = 1

\* C6: when the start or the end marker of a field is absent from the raw text,
\* the field's output is its default (revenue 100000, expenses 60000), the call
\* raises only if the other field has both markers and its text is no number,
\* and the other field, with both markers present, is still parsed from the text.
C6_MissingMarkerFallsBack ==
    XmlCalled =>
        \A f \in Fields : ~BothMarkers(raw_xml, f) =>
            /\ XmlReturned => xml_out.ret[f] = DefaultOf(f)
            /\ ~XmlReturned =>
                  /\ BothMarkers(raw_xml, Other(f))
                  /\ ~IsNumber(UpToNextMarker(raw_xml, Other(f)))
            /\ BothMarkers(raw_xml, Other(f)) => ParsedAs(Other(f), UpToNextMarker)

\* The expenses markers are absent, one revenue marker pair is present and parsed.
C6_Witness ==
    /\ XmlReturned
    /\ ~BothMarkers(raw_xml, "expenses")
    /\ Occurrences(raw_xml, "</expenses>") # {}
    /\ BothMarkers(raw_xml, "revenue")
    /\ xml_out.ret.revenue = 11
    /\ xml_out.ret.expenses = 60000

(***************************************************************************)
(* What the specification says of the orchestration loop.                  *)
(***************************************************************************)
RunEnded == pc.at = 4 \/ pc.exc # "None"
HardError == pc.at = 2 /\ pc.exc = "ValueError"
Handed(source) == \E i \in 1..Len(processed) : processed[i].source = source

\* C5 as claimed: when the accounting adapter raises the hard error, only its
\* record is lost: run still obtains the tax record before it and the credit
\* record after it and hands both to process.
C5_AsClaimed ==
    (RunEnded /\ HardError) =>
        (Handed("TaxCalculatorCSV") /\ Handed("CreditAuthorizationJSONService"))

(***************************************************************************)
(* What the specification says of the records: idempotence, freshness and  *)
(* the pass-through of the structured-record normaliser.                   *)
(***************************************************************************)
Calls == 1..Len(results)
SameInput(i, j) ==
    results[i].adapter = results[j].adapter /\ results[i].raw = results[j].raw
ReturnedCalls == {i \in Calls : results[i].exc = "None"}

C9_CreditPassThrough ==
    \A i \in Calls : results[i].adapter = "credit" =>
        /\ results[i].exc = "None"
        /\ DOMAIN heap[results[i].addr].items = {"source", "credit"}
        /\ heap[results[i].addr].items.source = "CreditAuthorizationJSONService"
        /\ LET credit == heap[heap[results[i].addr].items.credit].items
           IN  /\ DOMAIN credit = DOMAIN results[i].raw
               /\ \A k \in DOMAIN credit : credit[k] = results[i].raw[k]

\* The adapter has returned for the full mapping and for one without limit and
\* status.
C9_Witness ==
    /\ \E i \in Calls : results[i].adapter = "credit" /\ results[i].exc = "None"
                        /\ DOMAIN results[i].raw = {"credit_score", "limit", "status"}
                        /\ results[i].value.credit.limit = 15000
    /\ \E i \in Calls : results[i].adapter = "credit" /\ results[i].exc = "None"
                        /\ DOMAIN results[i].raw = {"credit_score"}

(***************************************************************************)
(* What is claimed of the Department composite.                            *)
(***************************************************************************)
\* The number of ways down from component c to leaf e, in at most depth steps.
RECURSIVE Walks(_, _, _, _)
RECURSIVE WalksVia(_, _, _, _, _)
Walks(ch, c, e, depth) ==
    IF c = e THEN 1
    ELSE IF c \in Leaves \/ depth = 0 THEN 0
    ELSE WalksVia(ch, c, e, depth, 1)

WalksVia(ch, d, e, depth, i) ==
    IF i > Len(ch[d]) THEN 0
    ELSE Walks(ch, ch[d][i], e, depth - 1) + WalksVia(ch, d, e, depth, i + 1)

Acyclic(ch) == \A d \in Departments : \A c \in Components :
                   is_child(ch, d, c) => d \notin below(ch, {c})

\* Every leaf's salary, once per way down to it from d.
SalaryBelow(ch, d) ==
    Salary["dev_1"] * Walks(ch, d, "dev_1", Cardinality(Departments))
        + Salary["dev_2"] * Walks(ch, d, "dev_2", Cardinality(Departments))

Without(xs, i) == [k \in 1..(Len(xs) - 1) |-> IF k < i THEN xs[k] ELSE xs[k + 1]]

\* C10: on an acyclic structure reached by add and remove calls,
\* get_total_salary of a department returns the sum of the salaries of the leaves
\* below it, a leaf counted once for every occurrence in a children list on the
\* way; remove(c) takes exactly one occurrence of c out of the department's
\* children and changes nothing when c is not among them.
C10_CompositeTotalAndRemove ==
    /\ (last.op = "get_total_salary" /\ Acyclic(children)) =>
          /\ last.exc = "None"
          /\ last.result = SalaryBelow(children, last.dept)
    /\ last.op = "remove" =>
          /\ \A d \in Departments \ {last.dept} : children[d] = before[d]
          /\ IF \A i \in 1..Len(before[last.dept]) : before[last.dept][i] # last.comp
             THEN children[last.dept] = before[last.dept]
             ELSE \E i \in 1..Len(before[last.dept]) :
                      /\ before[last.dept][i] = last.comp
                      /\ children[last.dept] = Without(before[last.dept], i)

\* The total of a department that holds a leaf twice, asked of its parent.
C10_Witness ==
    /\ last.op = "get_total_salary"
    /\ last.dept = "company"
    /\ children["company"] = <<"it_dept">>
    /\ children["it_dept"] = <<"dev_1", "dev_1">>
    /\ last.result = 200000
====
